---- MODULE Spec2Model ----
(***************************************************************************)
(* The CRM GraphQL mutations of src/schema.py (CreateCustomer,             *)
(* BulkCreateCustomers, CreateProduct, CreateOrder) over the three tables  *)
(* Customer, Product, Order and the Order<->Product relation.              *)
(*                                                                         *)
(* A table is the sequence of its rows in insertion order; the primary key *)
(* of a new row is one more than that of the last row (auto-increment).    *)
(* The mutations take no lock.  A save() outside a transaction is          *)
(* committed at once.  A save() inside the @transaction.atomic block of a  *)
(* bulk call is in the table but read by that call alone until the block   *)
(* is left: the commit shows its rows to every call, a rollback takes them *)
(* out of the table.                                                       *)
(* Prices and totals are integers (an amount in cents).  A phone number is *)
(* the sequence of the code points of its characters, so that the regular  *)
(* expression of src/schema.py:64 is evaluated character by character.     *)
(*                                                                         *)
(* What is modelled is the four mutate functions, called with their        *)
(* arguments.  As written, the module that holds them cannot be imported:  *)
(* the class body of BulkCreateCustomers.Arguments (src/schema.py:83)      *)
(* names CustomerInput, which a nested class body does not see, so the     *)
(* import raises NameError and the Mutation root of lines 183-187 is never *)
(* built.  src/crm/schema.py holds the same four functions (it saves with  *)
(* objects.create() followed by save()), fails to import the same way at   *)
(* its line 98, and does not import re, transaction and timezone.  The     *)
(* line numbers quoted here are those of src/schema.py.                    *)
(***************************************************************************)
EXTENDS Integers, Sequences, FiniteSets, TLC

VARIABLES customers, products, orders, pending, result, procs

vars == <<customers, products, orders, pending, result, procs>>

(***************************************************************************)
(* Bounds of the model.                                                    *)
(***************************************************************************)
MaxBatch == 3

MaxProducts == 3

MaxOrders == 1

MaxIds == 2

NumProcs == 2

(***************************************************************************)
(* Values.                                                                 *)
(***************************************************************************)
\* Python's None for an optional entity of a response: the empty option.
Null == {}

Some(x) == {x}

\* phone=None (the argument was not given); no character has code point -1.
NoPhone == <<-1>>

\* The code points of "+", "-" and the newline.
Plus == {43}

Hyphen == {45}

Newline == {10}

\* The code points of the characters of value 0 of Unicode category Nd: each
\* starts a run of ten decimal digits (48 is "0", 1632 the Arabic-Indic zero,
\* 65296 the full-width zero).
DigitZeros ==
    {48, 1632, 1776, 1984, 2406, 2534, 2662, 2790, 2918, 3046, 3174, 3302, 3430,
     3558, 3664, 3792, 3872, 4160, 4240, 6112, 6160, 6470, 6608, 6784, 6800, 6992,
     7088, 7232, 7248, 42528, 43216, 43264, 43472, 43504, 43600, 44016, 65296,
     66720, 68912, 69734, 69872, 69942, 70096, 70384, 70736, 70864, 71248, 71360,
     71472, 71904, 72016, 72784, 73040, 73120, 92768, 92864, 93008, 120782, 120792,
     120802, 120812, 120822, 123200, 123632, 125264, 130032}

\* \d of a str pattern: every Unicode decimal digit (category Nd), not only
\* the ASCII digits.
Digits == UNION {z..(z + 9) : z \in DigitZeros}

Range(s) == {s[i] : i \in 1..Len(s)}

\* re.match(r"^\+?\d[\d\-]{7,}$", phone): an optional "+", one digit, then
\* seven or more digits or hyphens; "$" also matches before a final newline.
ReMatchPhone(phone) ==
    LET t == IF Len(phone) > 0 /\ phone[1] \in Plus THEN Tail(phone) ELSE phone
        u == IF Len(t) > 0 /\ t[Len(t)] \in Newline THEN SubSeq(t, 1, Len(t) - 1) ELSE t
    IN  /\ Len(u) >= 8
        /\ u[1] \in Digits
        /\ \A i \in 2..Len(u) : u[i] \in Digits \cup Hyphen

\* `phone and not re.match(...)`: None and "" are falsy and skip the check.
PhoneInvalid(phone) ==
    /\ phone # NoPhone
    /\ phone # <<>>
    /\ ~ReMatchPhone(phone)

\* A faulty variant: the lookup filters on the name column.
EmailExistsWrongField(store, email) == \E i \in 1..Len(store) : store[i].name = email

\* Customer.objects.filter(email=email).exists()
EmailExists(store, email) == \E i \in 1..Len(store) : store[i].email = email

\* The primary key the store gives the next row of a table.
NextId(store) == IF store = <<>> THEN 1 ELSE store[Len(store)].id + 1

\* The rows other calls have inserted inside an atomic block they have not
\* left yet: call p does not read them.
Uncommitted(ps, p) ==
    UNION {Range(ps[q].st.created) :
               q \in {r \in DOMAIN ps \ {p} : ps[r].pc \in {"bulk_row", "bulk_save"}}}

\* The table as call p reads it: the committed rows and its own.
Visible(store, ps, p) == SelectSeq(store, LAMBDA c : c \notin Uncommitted(ps, p))

\* Customer(name=..., email=..., phone=...) followed by save(): a new row
\* with the next primary key.
NewCustomer(store, name, email, phone) ==
    [id |-> NextId(store), name |-> name, email |-> email, phone |-> phone]

(***************************************************************************)
(* Inputs.                                                                 *)
(***************************************************************************)
Names == {"Alice"}

Emails == {"alice@example.com", "bob@example.com"}

\* "+1234567890"
PhonePlus == <<43, 49, 50, 51, 52, 53, 54, 55, 56, 57, 48>>

\* "123-456-7890"
PhoneDashed == <<49, 50, 51, 45, 52, 53, 54, 45, 55, 56, 57, 48>>

\* "12345"
PhoneShort == <<49, 50, 51, 52, 53>>

\* "1234567"
PhoneSeven == <<49, 50, 51, 52, 53, 54, 55>>

\* The eight Arabic-Indic digits U+0661..U+0668.
PhoneArabicIndic == <<1633, 1634, 1635, 1636, 1637, 1638, 1639, 1640>>

\* "1234567a"
PhoneLetter == <<49, 50, 51, 52, 53, 54, 55, 97>>

PhoneSamples ==
    {NoPhone, <<>>, PhonePlus, PhoneDashed, PhoneArabicIndic, PhoneShort, PhoneSeven,
     PhoneLetter}

BulkPhoneSamples == {PhoneArabicIndic, PhoneShort}

CustomerInputs == [name : Names, email : Emails, phone : BulkPhoneSamples]

Batches == UNION {[1..n -> CustomerInputs] : n \in 0..MaxBatch}

(***************************************************************************)
(* Messages.                                                               *)
(***************************************************************************)
MsgEmailExists == "Email already exists"

MsgPhoneFormat == "Invalid phone format (use +1234567890 or 123-456-7890)"

MsgValidationFailed == "Validation failed"

MsgCustomerCreated == "Customer created successfully"

\* str(e) of an exception raised by the store, not by the mutation's code.
MsgStoreError == "<store error>"

\* str(e) of the error a query raises in a transaction marked for rollback.
MsgBrokenTransaction == "<transaction is marked for rollback>"

\* f"Row {i+1}: {str(e)}", i the 0-based index of enumerate(input).
RowError(i0, msg) == "Row " \o ToString(i0 + 1) \o ": " \o msg

NoResult == [op |-> "none"]

IdleProc == [pc |-> "idle"]

(***************************************************************************)
(* CreateCustomer.mutate                                                   *)
(***************************************************************************)
\* A faulty variant: the phone check is skipped once the email check failed.
CreateCustomerErrorsElif(store, email, phone) ==
    IF EmailExists(store, email) THEN <<MsgEmailExists>>
    ELSE IF PhoneInvalid(phone) THEN <<MsgPhoneFormat>>
    ELSE <<>>

\* The two checks of lines 59-65, each appending to errors.
CreateCustomerErrors(store, email, phone) ==
    (IF EmailExists(store, email) THEN <<MsgEmailExists>> ELSE <<>>)
        \o (IF PhoneInvalid(phone) THEN <<MsgPhoneFormat>> ELSE <<>>)

\* Lines 67-72: the response, and the table after the call.
CreateCustomerFinish(store, args, errors) ==
    IF errors # <<>>
    THEN [store |-> store,
          response |-> [op |-> "CreateCustomer", args |-> args, customer |-> Null,
                        message |-> MsgValidationFailed, errors |-> errors]]
    ELSE LET c == NewCustomer(store, args.name, args.email, args.phone)
         IN  [store |-> Append(store, c),
              response |-> [op |-> "CreateCustomer", args |-> args,
                            customer |-> Some(c),
                            message |-> MsgCustomerCreated, errors |-> <<>>]]

CreateCustomer ==
    \E name \in Names, email \in Emails, phone \in PhoneSamples :
        LET args == [name |-> name, email |-> email, phone |-> phone]
            out == CreateCustomerFinish(customers, args,
                       CreateCustomerErrors(customers, email, phone))
        IN  /\ pending = Null
            /\ customers' = out.store
            /\ result' = out.response
            /\ UNCHANGED <<products, orders, pending, procs>>

(***************************************************************************)
(* BulkCreateCustomers.mutate                                              *)
(***************************************************************************)
\* The loop's state, lines 90-91 and the enclosing atomic block:
\* created_customers, errors, the rows whose save() raised, and whether the
\* block has been marked for rollback.
BulkStart == [created |-> <<>>, errors |-> <<>>, failed |-> {}, broken |-> FALSE]

\* Lines 96-101 of one iteration: the exists() query and the phone check,
\* store being the table as the call reads it.
\* The error of the row, or none when the row passes.  In a block marked
\* for rollback the query itself raises.  Every exception is caught by
\* `except Exception` and becomes a row error.
BulkRowRefusal(store, st, data, i0) ==
    IF st.broken THEN <<RowError(i0, MsgBrokenTransaction)>>
    ELSE IF EmailExists(store, data.email)
    THEN <<RowError(i0, "Duplicate email: " \o data.email)>>
    ELSE IF PhoneInvalid(data.phone)
    THEN <<RowError(i0, "Invalid phone format for " \o data.email)>>
    ELSE <<>>

\* Lines 103-105 of one iteration, and lines 107-108 when save() raises.
\* The row is inserted inside the atomic block, so it stays uncommitted
\* until the block is left.
\* env.faults are the rows whose save() the store fails; env.marks tells
\* whether such a failure marks the transaction for rollback (after which
\* every query raises, and leaving the block rolls back).
BulkSave(store, st, data, i0, env) ==
    IF (i0 + 1) \in env.faults
    THEN [store |-> store,
          st |-> [st EXCEPT !.errors = Append(@, RowError(i0, MsgStoreError)),
                            !.failed = @ \cup {i0 + 1},
                            !.broken = env.marks]]
    ELSE LET c == NewCustomer(store, data.name, data.email, data.phone)
         IN  [store |-> Append(store, c),
              st |-> [st EXCEPT !.created = Append(@, c)]]

\* One iteration of the loop body, lines 94-108, with no other call between
\* its steps.
BulkRow(store, st, data, i0, env) ==
    LET refusal == BulkRowRefusal(store, st, data, i0)
    IN  IF refusal # <<>>
        THEN [store |-> store, st |-> [st EXCEPT !.errors = @ \o refusal]]
        ELSE BulkSave(store, st, data, i0, env)

\* A faulty variant: the loop ends at the first failing row.
RECURSIVE BulkLoopStopAtFirstError(_, _, _, _)
BulkLoopStopAtFirstError(ls, input, i0, env) ==
    IF i0 >= Len(input) \/ ls.st.errors # <<>> THEN ls
    ELSE BulkLoopStopAtFirstError(BulkRow(ls.store, ls.st, input[i0 + 1], i0, env),
                                  input, i0 + 1, env)

\* for i, data in enumerate(input): ..., from index i0 on; ls is the table
\* and the loop's state.
RECURSIVE BulkLoop(_, _, _, _)
BulkLoop(ls, input, i0, env) ==
    IF i0 >= Len(input) THEN ls
    ELSE BulkLoop(BulkRow(ls.store, ls.st, input[i0 + 1], i0, env), input, i0 + 1, env)

\* Leaving the atomic block of line 88 without an exception: a block not
\* marked for rollback is committed, and a COMMIT the store fails
\* (env.commit_fails) raises, outside the try of lines 94-108 and so out of
\* mutate.
CommitRaises(st, env) == ~st.broken /\ env.commit_fails

\* The table once the block is left: a committed block keeps its rows, a
\* block marked for rollback or whose COMMIT failed is rolled back, which
\* takes the rows the call inserted out of the table.
BulkLeave(store, st, env) ==
    IF st.broken \/ env.commit_fails
    THEN SelectSeq(store, LAMBDA c : c \notin Range(st.created))
    ELSE store

\* Line 110: the response (outcome "returned"), the only way out of the
\* loop since no exception leaves the try of its body.  When the COMMIT
\* raises, no response is returned (outcome "raised").
BulkResponse(input, st, env) ==
    IF CommitRaises(st, env)
    THEN [op |-> "BulkCreateCustomers", args |-> [input |-> input],
          failed_saves |-> st.failed, outcome |-> "raised",
          customers |-> <<>>, errors |-> <<>>]
    ELSE [op |-> "BulkCreateCustomers", args |-> [input |-> input],
          failed_saves |-> st.failed, outcome |-> "returned",
          customers |-> st.created, errors |-> st.errors]

\* The whole mutation with no other call between its steps.
BulkMutate(store, input, env) ==
    LET ls == BulkLoop([store |-> store, st |-> BulkStart], input, 0, env)
    IN  [store |-> BulkLeave(ls.store, ls.st, env),
         response |-> BulkResponse(input, ls.st, env)]

NoFaults == [faults |-> {}, marks |-> FALSE, commit_fails |-> FALSE]

\* A bulk call that no other call overlaps, over a store that does not fail.
BulkCreateCustomers ==
    \E input \in Batches :
        LET out == BulkMutate(customers, input, NoFaults)
        IN  /\ pending = Null
            /\ customers' = out.store
            /\ result' = out.response
            /\ UNCHANGED <<products, orders, pending, procs>>

\* A bulk call that no other call overlaps, over a store that fails the
\* save() of row k (no save when k = 0) or the COMMIT.
BulkCreateCustomersStoreFault ==
    \E input \in Batches, marks \in BOOLEAN, commit_fails \in BOOLEAN :
        \E k \in 0..Len(input) :
            LET env == [faults |-> IF k = 0 THEN {} ELSE {k}, marks |-> marks,
                        commit_fails |-> commit_fails]
                out == BulkMutate(customers, input, env)
            IN  /\ pending = Null
                /\ k > 0 \/ commit_fails
                /\ marks => k > 0
                /\ customers' = out.store
                /\ result' = out.response
                /\ UNCHANGED <<products, orders, pending, procs>>

(***************************************************************************)
(* CreateProduct.mutate                                                    *)
(***************************************************************************)
MsgPrice == "Price must be positive"

MsgStock == "Stock cannot be negative"

ProductNames == {"Laptop"}

Prices == {-5, 0, 10, 25}

Stocks == {-1, 0}

\* A faulty variant: a price of 0 is accepted.
CreateProductErrorsZeroPrice(price, stock) ==
    (IF price < 0 THEN <<MsgPrice>> ELSE <<>>)
        \o (IF stock < 0 THEN <<MsgStock>> ELSE <<>>)

\* Lines 124-128: the two checks, each appending to errors.
CreateProductErrors(price, stock) ==
    (IF price <= 0 THEN <<MsgPrice>> ELSE <<>>)
        \o (IF stock < 0 THEN <<MsgStock>> ELSE <<>>)

\* Lines 130-135: the response, and the table after the call.
CreateProductFinish(store, args, errors) ==
    IF errors # <<>>
    THEN [store |-> store,
          response |-> [op |-> "CreateProduct", args |-> args, product |-> Null,
                        errors |-> errors]]
    ELSE LET p == [id |-> Len(store) + 1, name |-> args.name, price |-> args.price,
                   stock |-> args.stock]
         IN  [store |-> Append(store, p),
              response |-> [op |-> "CreateProduct", args |-> args,
                            product |-> Some(p), errors |-> <<>>]]

CreateProduct ==
    \E name \in ProductNames, price \in Prices, stock \in Stocks :
        LET args == [name |-> name, price |-> price, stock |-> stock]
            out == CreateProductFinish(products, args, CreateProductErrors(price, stock))
        IN  /\ pending = Null
            /\ Len(products) < MaxProducts
            /\ products' = out.store
            /\ result' = out.response
            /\ UNCHANGED <<customers, orders, pending, procs>>

(***************************************************************************)
(* CreateOrder.mutate                                                      *)
(***************************************************************************)
MsgInvalidCustomer == "Invalid customer ID"

MsgNoProducts == "At least one product must be provided"

MsgInvalidProducts == "Some product IDs are invalid"

\* order_date=None (the argument was not given).
NoDate == "None"

\* The value of timezone.now().
Now == "timezone.now()"

OrderDates == {NoDate, "2024-01-01T00:00:00"}

\* Customer.objects.get(id=customer_id) finds a row.
CustomerFound(cs, customer_id) == \E i \in 1..Len(cs) : cs[i].id = customer_id

\* Product.objects.filter(id__in=product_ids): the rows whose id is in the
\* list, each row once.
FilterProducts(ps, product_ids) ==
    SelectSeq(ps, LAMBDA p : p.id \in Range(product_ids))

\* sum(p.price for p in products)
RECURSIVE SumPrices(_)
SumPrices(ps) == IF ps = <<>> THEN 0 ELSE Head(ps).price + SumPrices(Tail(ps))

\* A faulty variant: the empty list is tested before the customer.
CreateOrderGatesProductsFirst(cs, ps, customer_id, product_ids) ==
    IF product_ids = <<>> THEN <<MsgNoProducts>>
    ELSE IF ~CustomerFound(cs, customer_id) THEN <<MsgInvalidCustomer>>
    ELSE IF Len(FilterProducts(ps, product_ids)) # Len(product_ids)
    THEN <<MsgInvalidProducts>>
    ELSE <<>>

\* A variant that counts the distinct requested ids, so accepts a repeated id.
CreateOrderGatesDistinctIds(cs, ps, customer_id, product_ids) ==
    IF ~CustomerFound(cs, customer_id) THEN <<MsgInvalidCustomer>>
    ELSE IF product_ids = <<>> THEN <<MsgNoProducts>>
    ELSE IF Len(FilterProducts(ps, product_ids)) # Cardinality(Range(product_ids))
    THEN <<MsgInvalidProducts>>
    ELSE <<>>

\* Lines 149-166: the three gates, each returning at once with its message.
CreateOrderGates(cs, ps, customer_id, product_ids) ==
    IF ~CustomerFound(cs, customer_id) THEN <<MsgInvalidCustomer>>
    ELSE IF product_ids = <<>> THEN <<MsgNoProducts>>
    ELSE IF Len(FilterProducts(ps, product_ids)) # Len(product_ids)
    THEN <<MsgInvalidProducts>>
    ELSE <<>>

\* A faulty variant: the total is the price of the first product only.
NewOrderFirstPrice(os, ps, args) ==
    [id |-> Len(os) + 1, customer |-> args.customer_id,
     total_amount |-> Head(FilterProducts(ps, args.product_ids)).price,
     order_date |-> IF args.order_date = NoDate THEN Now ELSE args.order_date,
     products |-> {}]

\* Lines 169-176: the Order row that order.save() inserts; its product
\* relation is still empty.
NewOrder(os, ps, args) ==
    [id |-> Len(os) + 1, customer |-> args.customer_id,
     total_amount |-> SumPrices(FilterProducts(ps, args.product_ids)),
     order_date |-> IF args.order_date = NoDate THEN Now ELSE args.order_date,
     products |-> {}]

\* The products of seed.py, the prices in cents.
SeedProducts ==
    << [id |-> 1, name |-> "Laptop", price |-> 99999, stock |-> 10],
       [id |-> 2, name |-> "Phone", price |-> 49999, stock |-> 20] >>

\* The ids of the seeded products and the next id, which no product has
\* until one is created.
ProductIds == 1..(Len(SeedProducts) + 1)

ProductIdLists == UNION {[1..n -> ProductIds] : n \in 0..MaxIds}

\* The customers of seed.py.
SeedCustomers ==
    << [id |-> 1, name |-> "Alice", email |-> "alice@example.com", phone |-> PhonePlus],
       [id |-> 2, name |-> "Bob", email |-> "bob@example.com", phone |-> PhoneDashed] >>

\* The ids of the seeded customers and an id no customer has.
CustomerIds == 1..(Len(SeedCustomers) + 1)

\* Lines 148-176: the gates and, when they pass, order.save().
CreateOrderSave ==
    \E customer_id \in CustomerIds, product_ids \in ProductIdLists, order_date \in OrderDates :
        LET args == [customer_id |-> customer_id, product_ids |-> product_ids,
                     order_date |-> order_date]
            errors == CreateOrderGates(customers, products, customer_id, product_ids)
        IN  /\ pending = Null
            /\ Len(orders) < MaxOrders
            /\ IF errors # <<>>
               THEN /\ result' = [op |-> "CreateOrder", args |-> args, order |-> Null,
                                  errors |-> errors]
                    /\ UNCHANGED <<orders, pending>>
               ELSE LET o == NewOrder(orders, products, args)
                    IN  /\ orders' = Append(orders, o)
                        /\ pending' = Some([args |-> args, order |-> o.id,
                                            products |-> FilterProducts(products,
                                                                        product_ids)])
                        /\ result' = NoResult
            /\ UNCHANGED <<customers, products, procs>>

\* Lines 177-179: order.products.set(products) and the response.
CreateOrderSetProducts ==
    \E call \in pending :
        /\ orders' = [orders EXCEPT ![call.order].products =
                          {call.products[i].id : i \in 1..Len(call.products)}]
        /\ pending' = Null
        /\ result' = [op |-> "CreateOrder", args |-> call.args,
                      order |-> Some(orders'[call.order]), errors |-> <<>>]
        /\ UNCHANGED <<customers, products, procs>>

(***************************************************************************)
(* Calls served concurrently.  Every store round trip of a call is a step  *)
(* of its own, and the steps of different calls interleave.  Each call    *)
(* reads the table through Visible.                                        *)
(*                                                                         *)
(* CreateCustomer: the checks (lines 57-65, the exists() query of line 60) *)
(* and later the return or save (lines 67-72).                             *)
(***************************************************************************)
RacePhoneSamples == {NoPhone, PhonePlus, PhoneShort}

ValidateCustomer(p) ==
    \E name \in Names, email \in Emails, phone \in RacePhoneSamples :
        /\ procs[p].pc = "idle"
        /\ procs' = [procs EXCEPT ![p] =
               [pc |-> "validated",
                args |-> [name |-> name, email |-> email, phone |-> phone],
                errors |-> CreateCustomerErrors(Visible(customers, procs, p),
                                                email, phone)]]
        /\ UNCHANGED <<customers, products, orders, pending, result>>

\* A variant in which the checks are made again, atomically with the save.
CreateCustomerFinishRechecked(store, args, errors) ==
    CreateCustomerFinish(store, args, CreateCustomerErrors(store, args.email, args.phone))

\* The step of lines 67-72 of a call whose checks were made earlier.
PersistStep(store, args, errors) == CreateCustomerFinish(store, args, errors)

PersistCustomer(p) ==
    /\ procs[p].pc = "validated"
    /\ LET out == PersistStep(customers, procs[p].args, procs[p].errors)
       IN  /\ customers' = out.store
           /\ procs' = [procs EXCEPT ![p] =
                  [pc |-> "done", args |-> procs[p].args, response |-> out.response]]
    /\ UNCHANGED <<products, orders, pending, result>>

\* Another call is inside its atomic block and has read or written there, so
\* its transaction is open in the store.
BlockOpenBeside(ps, p) ==
    \E q \in DOMAIN ps \ {p} :
        \/ ps[q].pc = "bulk_save"
        \/ ps[q].pc = "bulk_row" /\ ps[q].i0 > 0

\* The save() of line 71 when the store fails it.  A store that locks the
\* whole database for an open transaction refuses the write while another
\* call's block is open (a store with row locks does not, and the call goes
\* on as PersistCustomer).  No try surrounds line 71: the exception leaves
\* mutate, nothing is inserted and no response is returned.
PersistCustomerRaises(p) ==
    /\ procs[p].pc = "validated"
    /\ procs[p].errors = <<>>
    /\ BlockOpenBeside(procs, p)
    /\ procs' = [procs EXCEPT ![p] = [pc |-> "raised", args |-> procs[p].args]]
    /\ UNCHANGED <<customers, products, orders, pending, result>>

(***************************************************************************)
(* BulkCreateCustomers: entering the atomic block (lines 88-91), then for  *)
(* each row the exists() query with the phone check (lines 96-101) and     *)
(* later the save (lines 103-108), and at last leaving the block with the  *)
(* response (line 110).  The store may fail any save() and the COMMIT.    *)
(* The rows a call saves are its own (procs[p].st.created) until it leaves *)
(* the block.                                                              *)
(***************************************************************************)
MaxRaceBatch == 2

RaceBatches == UNION {[1..n -> CustomerInputs] : n \in 0..MaxRaceBatch}

BulkBegin(p) ==
    \E input \in RaceBatches :
        /\ procs[p].pc = "idle"
        /\ procs' = [procs EXCEPT ![p] =
               [pc |-> "bulk_row", input |-> input, i0 |-> 0, st |-> BulkStart]]
        /\ UNCHANGED <<customers, products, orders, pending, result>>

BulkCheckRow(p) ==
    /\ procs[p].pc = "bulk_row"
    /\ procs[p].i0 < Len(procs[p].input)
    /\ LET i0 == procs[p].i0
           refusal == BulkRowRefusal(Visible(customers, procs, p), procs[p].st,
                                     procs[p].input[i0 + 1], i0)
       IN  procs' = [procs EXCEPT ![p] =
               IF refusal # <<>>
               THEN [@ EXCEPT !.st.errors = @ \o refusal, !.i0 = i0 + 1]
               ELSE [@ EXCEPT !.pc = "bulk_save"]]
    /\ UNCHANGED <<customers, products, orders, pending, result>>

BulkSaveRow(p) ==
    \E fails \in BOOLEAN, marks \in BOOLEAN :
        /\ procs[p].pc = "bulk_save"
        /\ fails \/ ~marks
        /\ LET i0 == procs[p].i0
               env == [faults |-> IF fails THEN {i0 + 1} ELSE {}, marks |-> marks,
                       commit_fails |-> FALSE]
               out == BulkSave(customers, procs[p].st, procs[p].input[i0 + 1], i0, env)
           IN  /\ customers' = out.store
               /\ procs' = [procs EXCEPT ![p] =
                      [@ EXCEPT !.pc = "bulk_row", !.st = out.st, !.i0 = i0 + 1]]
        /\ UNCHANGED <<products, orders, pending, result>>

BulkReturn(p) ==
    \E commit_fails \in BOOLEAN :
        /\ procs[p].pc = "bulk_row"
        /\ procs[p].i0 = Len(procs[p].input)
        /\ commit_fails => ~procs[p].st.broken
        /\ LET env == [faults |-> {}, marks |-> FALSE, commit_fails |-> commit_fails]
           IN  /\ customers' = BulkLeave(customers, procs[p].st, env)
               /\ procs' = [procs EXCEPT ![p] =
                      [pc |-> "done", args |-> [input |-> procs[p].input],
                       response |-> BulkResponse(procs[p].input, procs[p].st, env)]]
        /\ UNCHANGED <<products, orders, pending, result>>

(***************************************************************************)
(* Specifications.                                                         *)
(***************************************************************************)
InitEmpty ==
    /\ customers = <<>>
    /\ products = <<>>
    /\ orders = <<>>
    /\ pending = Null
    /\ result = NoResult
    /\ procs = [p \in 1..NumProcs |-> IdleProc]

InitSeeded ==
    /\ customers = SeedCustomers
    /\ products = SeedProducts
    /\ orders = <<>>
    /\ pending = Null
    /\ result = NoResult
    /\ procs = [p \in 1..NumProcs |-> IdleProc]

\* The customer mutations, one call at a time.
NextCustomers == CreateCustomer \/ BulkCreateCustomers

SpecCustomers == InitEmpty /\ [][NextCustomers]_vars

\* The product and order mutations, one call at a time, over the seeded store.
NextOrders == CreateProduct \/ CreateOrderSave \/ CreateOrderSetProducts

SpecOrders == InitSeeded /\ [][NextOrders]_vars

\* The bulk mutation, one call at a time, over a store that may fail a
\* save() or the COMMIT.
NextStoreFault == BulkCreateCustomers \/ BulkCreateCustomersStoreFault

SpecStoreFault == InitEmpty /\ [][NextStoreFault]_vars

\* CreateCustomer calls served concurrently.
NextRace == \E p \in 1..NumProcs : ValidateCustomer(p) \/ PersistCustomer(p)

SpecRace == InitEmpty /\ [][NextRace]_vars

\* CreateCustomer and BulkCreateCustomers calls served concurrently, over a
\* store that may fail a save() or the COMMIT of a bulk call, and the save()
\* of a CreateCustomer call made while a bulk call's block is open.
NextBulkRace ==
    \E p \in 1..NumProcs :
        \/ ValidateCustomer(p)
        \/ PersistCustomer(p)
        \/ PersistCustomerRaises(p)
        \/ BulkBegin(p)
        \/ BulkCheckRow(p)
        \/ BulkSaveRow(p)
        \/ BulkReturn(p)

SpecBulkRace == InitEmpty /\ [][NextBulkRace]_vars

(***************************************************************************)
(* Properties of the customer mutations (SpecCustomers).                   *)
(***************************************************************************)
\* C1: no two persisted customers have the same email, whatever sequence of
\* CreateCustomer and BulkCreateCustomers calls ran, batches that repeat an
\* email included.
C1_UniqueEmails ==
    \A i, j \in 1..Len(customers) :
        i # j => customers[i].email # customers[j].email

\* A batch that repeated an email has run: one of its rows was persisted and
\* a later row with the same email was refused.
C1_Witness ==
    /\ result.op = "BulkCreateCustomers"
    /\ \E i, j \in 1..Len(result.args.input) :
           /\ i < j
           /\ result.args.input[i].email = result.args.input[j].email
           /\ \E k \in 1..Len(result.customers) :
                  result.customers[k].email = result.args.input[i].email
           /\ \E k \in 1..Len(result.errors) :
                  result.errors[k] = "Row " \o ToString(j) \o ": Duplicate email: "
                                         \o result.args.input[j].email
    /\ Len(customers) = 2

\* Row i of a batch passes both checks when it is reached: its phone is
\* acceptable, its email is not in the table the batch started from, and no
\* earlier row of the batch with the same email was persisted.
RowPasses(pre, input, i) ==
    /\ ~PhoneInvalid(input[i].phone)
    /\ ~\E c \in Range(pre) : c.email = input[i].email
    /\ ~\E j \in 1..(i - 1) :
           input[j].email = input[i].email /\ ~PhoneInvalid(input[j].phone)

\* The email of row i is in the table when row i is reached.
RowEmailTaken(pre, input, i) ==
    \/ \E c \in Range(pre) : c.email = input[i].email
    \/ \E j \in 1..(i - 1) : input[j].email = input[i].email /\ RowPasses(pre, input, j)

\* C4: a bulk call returns the rows that passed both checks when reached, in
\* input order and each persisted (they are the last rows of the table, pre
\* being the table the batch started from), and one "Row <1-based index>: "
\* error per failing row, in input order; a failing row does not stop later
\* rows.
C4_BulkPartialSuccess ==
    result.op = "BulkCreateCustomers" =>
        /\ Len(result.customers) <= Len(customers)
        /\ LET input == result.args.input
               pre == SubSeq(customers, 1, Len(customers) - Len(result.customers))
               ok == SelectSeq([i \in 1..Len(input) |-> i],
                              LAMBDA i : RowPasses(pre, input, i))
               bad == SelectSeq([i \in 1..Len(input) |-> i],
                               LAMBDA i : ~RowPasses(pre, input, i))
               made == [k \in 1..Len(ok) |->
                           [id |-> Len(pre) + k, name |-> input[ok[k]].name,
                            email |-> input[ok[k]].email, phone |-> input[ok[k]].phone]]
           IN  /\ result.customers = made
               /\ customers = pre \o made
               /\ Len(result.errors) = Len(bad)
               /\ \A k \in 1..Len(bad) :
                      result.errors[k] =
                          "Row " \o ToString(bad[k]) \o ": "
                              \o (IF RowEmailTaken(pre, input, bad[k])
                                  THEN "Duplicate email: "
                                  ELSE "Invalid phone format for ")
                              \o input[bad[k]].email
               /\ Len(result.customers) + Len(result.errors) = Len(input)

\* The batch [ok, duplicate email, ok] has run: two customers were created
\* and the one error is that of row 2.
C4_Witness ==
    /\ result.op = "BulkCreateCustomers"
    /\ Len(result.args.input) = 3
    /\ Len(result.customers) = 2
    /\ result.customers[2].email = result.args.input[3].email
    /\ result.errors = <<"Row 2: Duplicate email: alice@example.com">>

\* C5: CreateCustomer with an email already in the table returns no customer,
\* "Validation failed", and "Email already exists" followed by the phone
\* message when the phone is invalid too; the table is unchanged, so the same
\* call repeated gives the same answer.
C5_CreateCustomerCollectsErrors ==
    [][(/\ result'.op = "CreateCustomer"
        /\ \E c \in Range(customers) : c.email = result'.args.email) =>
          /\ result'.customer = {}
          /\ result'.message = "Validation failed"
          /\ result'.errors =
                 IF PhoneInvalid(result'.args.phone)
                 THEN <<"Email already exists",
                        "Invalid phone format (use +1234567890 or 123-456-7890)">>
                 ELSE <<"Email already exists">>
          /\ customers' = customers
          /\ CreateCustomerFinish(customers', result'.args,
                 CreateCustomerErrors(customers', result'.args.email,
                                      result'.args.phone)).response = result'
    ]_vars

\* A CreateCustomer call failed both checks.
C5_Witness ==
    /\ result.op = "CreateCustomer"
    /\ result.customer = {}
    /\ result.errors = <<"Email already exists",
                         "Invalid phone format (use +1234567890 or 123-456-7890)">>
    /\ \E c \in Range(customers) : c.email = result.args.email

(***************************************************************************)
(* Properties of the product and order mutations (SpecOrders).             *)
(***************************************************************************)
\* C6: CreateProduct checks price > 0 and stock >= 0 independently, reports
\* the messages of the failing checks in that order, persists nothing when a
\* check fails, and so every persisted product has price > 0 and stock >= 0.
C6_CreateProductChecks ==
    [][result'.op = "CreateProduct" =>
          LET a == result'.args
          IN  /\ result'.errors =
                     (IF a.price > 0 THEN <<>> ELSE <<"Price must be positive">>)
                         \o (IF a.stock >= 0 THEN <<>> ELSE <<"Stock cannot be negative">>)
              /\ result'.errors # <<>> => result'.product = {} /\ products' = products
              /\ result'.errors = <<>> =>
                     /\ result'.product # {}
                     /\ products' = products \o <<CHOOSE p \in result'.product : TRUE>>
              /\ \A p \in Range(products') : p.price > 0 /\ p.stock >= 0
    ]_vars

\* A CreateProduct call failed both checks.
C6_Witness ==
    /\ result.op = "CreateProduct"
    /\ result.args.price <= 0
    /\ result.args.stock < 0
    /\ result.product = {}
    /\ result.errors = <<"Price must be positive", "Stock cannot be negative">>

\* The products of table ps whose id is in the list.
Resolved(ps, ids) == {p \in Range(ps) : p.id \in Range(ids)}

\* C2: a failing CreateOrder returns no order and exactly one message, that
\* of the first failing gate in the order customer, empty list, resolved
\* count; no row of any table is created or changed.
C2_CreateOrderFirstFailingGate ==
    [][(result'.op = "CreateOrder" /\ result'.order = {}) =>
          LET a == result'.args
              found == \E c \in Range(customers) : c.id = a.customer_id
          IN  /\ result'.errors =
                     IF ~found THEN <<"Invalid customer ID">>
                     ELSE IF Len(a.product_ids) = 0
                     THEN <<"At least one product must be provided">>
                     ELSE <<"Some product IDs are invalid">>
              /\ (found /\ Len(a.product_ids) > 0) =>
                     Cardinality(Resolved(products, a.product_ids)) # Len(a.product_ids)
              /\ UNCHANGED <<customers, products, orders>>
    ]_vars

\* A CreateOrder call with a missing customer and an empty product list has
\* returned only the customer message.
C2_Witness ==
    /\ result.op = "CreateOrder"
    /\ result.order = {}
    /\ ~\E c \in Range(customers) : c.id = result.args.customer_id
    /\ result.args.product_ids = <<>>
    /\ result.errors = <<"Invalid customer ID">>

\* The sum of the prices of the products of S.
RECURSIVE SumOfPrices(_)
SumOfPrices(S) ==
    IF S = {} THEN 0
    ELSE LET p == CHOOSE q \in S : TRUE IN p.price + SumOfPrices(S \ {p})

\* The ids of a list are distinct and each is the id of a product of ps.
DistinctExisting(ps, ids) ==
    /\ \A i, j \in 1..Len(ids) : i # j => ids[i] # ids[j]
    /\ \A i \in 1..Len(ids) : \E p \in Range(ps) : p.id = ids[i]

\* C3: CreateOrder for an existing customer and a non-empty list of distinct
\* existing product ids returns no error and a persisted order of that
\* customer, whose products are exactly the requested ones and whose total is
\* the sum of their prices.
C3_CreateOrderTotal ==
    (/\ result.op = "CreateOrder"
     /\ \E c \in Range(customers) : c.id = result.args.customer_id
     /\ result.args.product_ids # <<>>
     /\ DistinctExisting(products, result.args.product_ids)) =>
        /\ result.errors = <<>>
        /\ \E o \in result.order :
               /\ o.id \in 1..Len(orders)
               /\ orders[o.id] = o
               /\ o.customer = result.args.customer_id
               /\ o.products = Range(result.args.product_ids)
               /\ o.total_amount = SumOfPrices(Resolved(products, result.args.product_ids))

\* An order of two products with different prices has been created.
C3_Witness ==
    /\ result.op = "CreateOrder"
    /\ result.errors = <<>>
    /\ Len(result.args.product_ids) = 2
    /\ \E o \in result.order :
           /\ Cardinality(o.products) = 2
           /\ o.total_amount = 149998
           /\ \E p, q \in Range(products) :
                  p.id \in o.products /\ q.id \in o.products /\ p.price # q.price

\* C7 (as claimed): in every state, the states between order.save() and
\* order.products.set() included, every persisted order has a non-empty
\* product set of existing products.
C7_OrdersHaveProducts ==
    \A i \in 1..Len(orders) :
        /\ orders[i].products # {}
        /\ \A id \in orders[i].products : \E p \in Range(products) : p.id = id

\* C10 (as claimed): for an existing customer and a non-empty list, the call
\* is refused with "Some product IDs are invalid" exactly when some id of
\* the list is not the id of a product; a repeated id is accepted.
C10_RefusedIffUnresolved ==
    (/\ result.op = "CreateOrder"
     /\ \E c \in Range(customers) : c.id = result.args.customer_id
     /\ result.args.product_ids # <<>>) =>
        (result.errors = <<"Some product IDs are invalid">>
            <=> \E i \in 1..Len(result.args.product_ids) :
                    ~\E p \in Range(products) : p.id = result.args.product_ids[i])

\* C10 (amended): for an existing customer and a non-empty list, the call is
\* refused with "Some product IDs are invalid" exactly when some id of the
\* list is not the id of a product or some id occurs more than once;
\* otherwise it produces an order.
C10_RefusedIffUnresolvedOrRepeated ==
    (/\ result.op = "CreateOrder"
     /\ \E c \in Range(customers) : c.id = result.args.customer_id
     /\ result.args.product_ids # <<>>) =>
        /\ result.errors = <<"Some product IDs are invalid">>
               <=> ~DistinctExisting(products, result.args.product_ids)
        /\ result.errors # <<"Some product IDs are invalid">>
               => result.errors = <<>> /\ result.order # {}

\* A list that names one existing product twice has been refused.
C10_Witness ==
    /\ result.op = "CreateOrder"
    /\ \E c \in Range(customers) : c.id = result.args.customer_id
    /\ Len(result.args.product_ids) = 2
    /\ result.args.product_ids[1] = result.args.product_ids[2]
    /\ \E p \in Range(products) : p.id = result.args.product_ids[1]
    /\ result.order = {}
    /\ result.errors = <<"Some product IDs are invalid">>

(***************************************************************************)
(* Property of the bulk mutation over a failing store (SpecStoreFault).    *)
(***************************************************************************)
\* C8 (as claimed): when the store fails the save() of a row of a bulk call,
\* the failure is no row error: it leaves the mutation as an exception, and
\* the table is as it was before the batch.
C8_StoreFailureAbortsBatch ==
    [][(result'.op = "BulkCreateCustomers" /\ result'.failed_saves # {}) =>
          /\ result'.outcome = "raised"
          /\ customers' = customers
    ]_vars

(***************************************************************************)
(* Property of concurrent CreateCustomer calls (SpecRace).                 *)
(***************************************************************************)
\* C9: the email check and the insert are separate steps.  A call's errors
\* are those of the table as it was when the call checked, and a call that
\* passed its checks inserts its row and reports success whatever the table
\* holds by then; so two calls with the same unused email can both pass,
\* both insert and both report success.
C9_CheckThenInsert ==
    [][\A p \in 1..NumProcs :
          /\ (procs[p].pc = "idle" /\ procs'[p].pc = "validated") =>
                 /\ customers' = customers
                 /\ ("Email already exists" \in Range(procs'[p].errors)
                        <=> \E c \in Range(customers) : c.email = procs'[p].args.email)
          /\ (procs[p].pc = "validated" /\ procs'[p].pc = "done"
                 /\ procs[p].errors = <<>>) =>
                 /\ procs'[p].response.errors = <<>>
                 /\ procs'[p].response.message = "Customer created successfully"
                 /\ procs'[p].response.customer # {}
                 /\ Len(customers') = Len(customers) + 1
                 /\ customers'[Len(customers')].email = procs[p].args.email
    ]_vars

\* Two concurrent calls with the same email have both reported success and
\* the table holds two customers with that email.
C9_Witness ==
    \E p, q \in 1..NumProcs :
        /\ p # q
        /\ procs[p].pc = "done" /\ procs[q].pc = "done"
        /\ procs[p].args.email = procs[q].args.email
        /\ procs[p].response.customer # {} /\ procs[q].response.customer # {}
        /\ procs[p].response.errors = <<>> /\ procs[q].response.errors = <<>>
        /\ \E i, j \in 1..Len(customers) :
               /\ i # j
               /\ customers[i].email = procs[p].args.email
               /\ customers[j].email = procs[p].args.email

====
